---- MODULE Spec2Model ----
(***************************************************************************)
(* DepNode identities of the incremental compilation dependency graph      *)
(* (librustc_query_system/dep_graph/dep_node.rs): DepNode::new_no_params,  *)
(* DepNode::construct, the DepNodeParams trait with its blanket and unit   *)
(* implementations, the debug registry construct writes to, and            *)
(* WorkProductId::from_cgu_name.                                           *)
(***************************************************************************)
EXTENDS Integers, Sequences, FiniteSets, TLC

VARIABLES
    debug_assertions,   \* build: cfg(debug_assertions)
    debug_dep_node,     \* session: tcx.debug_dep_node()
    dep_node_debug,     \* the debug registry: DepNode -> label
    pc,                 \* per thread: where it is inside construct
    frame,              \* per thread: the locals of its construct call
    results,            \* every call completed so far (set of call records)
    last,               \* the call completed most recently
    calls,              \* number of calls completed
    reg_log,            \* register_dep_node_debug_str calls, in execution order
    wp_hasher,          \* per accumulator: the bytes fed to the StableHasher
    wp_segs,            \* per accumulator: the names fed, in order
    wp_id               \* per accumulator: the last WorkProductId made from it

vars == <<debug_assertions, debug_dep_node, dep_node_debug, pc, frame, results,
          last, calls, reg_log, wp_hasher, wp_segs, wp_id>>

dep_vars == <<debug_assertions, debug_dep_node, dep_node_debug, pc, frame,
              results, last, calls, reg_log>>

wp_vars == <<wp_hasher, wp_segs, wp_id>>

----------------------------------------------------------------------------
(* Bounds *)

MaxCalls == 3       \* calls (completed or in flight) per run
MaxSegs == 2        \* names fed to one accumulator

Threads == {1, 2}
Accs == {1, 2}

----------------------------------------------------------------------------
(* Fingerprint and the stable hasher *)

\* Fingerprint::ZERO
ZERO == 0

\* StableHasher::new(): an accumulator that has been fed nothing
StableHasher_new == <<>>

\* width in bytes of the u64 that write_usize / write_u64 feed
WordBytes == 8

\* the little-endian bytes of n, w of them
RECURSIVE to_le(_, _)
to_le(n, w) == IF w = 0 THEN <<>> ELSE <<n % 256>> \o to_le(n \div 256, w - 1)

\* the digest's range (a stand-in for the 128 bits of the real one)
FingerprintSpace == 65521

\* StableHasher::finish(): a deterministic digest of the bytes fed
RECURSIVE digest(_, _)
digest(h, bytes) ==
    IF bytes = <<>> THEN h
    ELSE digest((h * 31 + Head(bytes) + 1) % FingerprintSpace, Tail(bytes))

finish(hasher) == digest(2166, hasher)

----------------------------------------------------------------------------
(* Kinds: the catalog the surrounding system supplies *)

Kinds == {"Foo", "Bar", "Anon"}

\* DepKind::has_params
has_params(kind) == kind \in {"Foo", "Anon"}

\* DepKind::can_reconstruct_query_key
DepKind_can_reconstruct_query_key(kind) == kind \in {"Foo", "Bar"}

----------------------------------------------------------------------------
(* Parameter types.  "unit" is (); "u64" and "idx" are types with stable   *)
(* hashing and Debug, which get the blanket implementation ("idx" is a     *)
(* newtype index: it hashes as its integer and prints as Idx(n)); "anon"   *)
(* is a marker type whose own implementation keeps the trait's default     *)
(* to_fingerprint.                                                         *)

BlanketTypes == {"u64", "idx"}
SourceTypes == {"unit"} \cup BlanketTypes

Args == {[ty |-> "unit", val |-> 0],
         [ty |-> "u64", val |-> 42],
         [ty |-> "idx", val |-> 42],
         [ty |-> "u64", val |-> 7],
         [ty |-> "anon", val |-> 0]}

\* the outcome of a panic in to_fingerprint
Misuse == -1

\* HashStable::hash_stable of an integer-like value: its u64, little-endian
hash_stable(arg, hasher) == hasher \o to_le(arg.val, WordBytes)

\* variant: the default returns a fingerprint instead of panicking
to_fingerprint_zero(arg) == ZERO

\* the trait's default to_fingerprint: panic!("Not implemented. ...")
trait_default_to_fingerprint(arg) == Misuse

\* variant: the accumulator starts from session state (the registry's size)
blanket_to_fingerprint_seeded(arg) ==
    finish(hash_stable(arg, to_le(Cardinality(DOMAIN dep_node_debug), WordBytes)))

\* the blanket implementation's to_fingerprint
blanket_to_fingerprint(arg) == finish(hash_stable(arg, StableHasher_new))

\* the unit implementation's to_fingerprint
unit_to_fingerprint(arg) == ZERO

\* arg.to_fingerprint(tcx), dispatched on the parameter type
to_fingerprint(arg) ==
    CASE arg.ty = "unit" -> unit_to_fingerprint(arg)
      [] arg.ty \in BlanketTypes -> blanket_to_fingerprint(arg)
      [] OTHER -> trait_default_to_fingerprint(arg)

\* arg.to_debug_str(tcx): format!("{:?}", self)
to_debug_str(arg) ==
    CASE arg.ty = "unit" -> "()"
      [] arg.ty = "u64" -> ToString(arg.val)
      [] arg.ty = "idx" -> "Idx(" \o ToString(arg.val) \o ")"
      [] OTHER -> "Anon"

\* Option values
None == <<>>
Some(v) == <<v>>

\* the blanket implementation's can_reconstruct_query_key
blanket_can_reconstruct_query_key == FALSE

\* variant: recover hands back the fingerprint as if it were the key
blanket_recover_hash(node) == Some(node.hash)

\* the blanket implementation's recover
blanket_recover(node) == None

\* T::can_reconstruct_query_key() for the types implemented in the source:
\* impl DepNodeParams for () defines to_fingerprint only, the rest it takes
\* from the blanket implementation it specializes
DepNodeParams_can_reconstruct_query_key(ty) ==
    CASE ty = "unit" -> blanket_can_reconstruct_query_key
      [] ty \in BlanketTypes -> blanket_can_reconstruct_query_key

\* T::recover(tcx, node), likewise
recover(ty, node) ==
    CASE ty = "unit" -> blanket_recover(node)
      [] ty \in BlanketTypes -> blanket_recover(node)

----------------------------------------------------------------------------
(* DepNode and call records *)

DepNode(kind, hash) == [kind |-> kind, hash |-> hash]

NoNode == [kind |-> "none", hash |-> Misuse]
NoArg == [ty |-> "none", val |-> 0]
NoFrame == [kind |-> "none", arg |-> NoArg, dep_node |-> NoNode]
NoCall == [op |-> "none", kind |-> "none", arg |-> NoArg, node |-> NoNode,
           outcome |-> "none"]

Call(op, kind, arg, node, outcome) ==
    [op |-> op, kind |-> kind, arg |-> arg, node |-> node, outcome |-> outcome]

EmptyRegistry == [n \in {} |-> ""]

\* the nodes returned so far by new_no_params and construct
Produced == {r.node : r \in {x \in results : x.outcome = "returned"}}

InFlight == Cardinality({t \in Threads : pc[t] = "registering"})

----------------------------------------------------------------------------
(* The debug registry (DepGraph::register_dep_node_debug_str): one critical *)
(* section per call, insert-if-absent; the label closure runs only when the *)
(* key is absent.                                                           *)

\* variant: insert overwrites a label that is present
register_overwrite(reg, node, label) ==
    [n \in DOMAIN reg \cup {node} |-> IF n = node THEN label ELSE reg[n]]

\* variant: the insert writes back a stale (empty) snapshot of the map
register_stale_snapshot(reg, node, label) ==
    IF node \in DOMAIN reg THEN reg ELSE (node :> label)

register_dep_node_debug_str(reg, node, label) ==
    IF node \in DOMAIN reg THEN reg ELSE reg @@ (node :> label)

----------------------------------------------------------------------------
(* DepNode::new_no_params *)

\* variant: the hash is derived from the kind
new_no_params_kind_hash(kind) == DepNode(kind, finish(<<Len(kind)>>))

\* the value new_no_params returns
new_no_params_node(kind) == DepNode(kind, ZERO)

\* debug_assert!(!kind.has_params()) fails: only a build with debug
\* assertions checks it
new_no_params_asserts(kind) == debug_assertions /\ has_params(kind)

NewNoParams(t, kind) ==
    /\ pc[t] = "idle"
    /\ calls + InFlight < MaxCalls
    /\ LET r == IF new_no_params_asserts(kind)
                THEN Call("new_no_params", kind, NoArg, NoNode, "AssertFailed")
                ELSE Call("new_no_params", kind, NoArg,
                          new_no_params_node(kind), "returned")
       IN /\ pc' = [pc EXCEPT ![t] = IF r.outcome = "returned"
                                     THEN "idle" ELSE "panicked"]
          /\ results' = results \cup {r}
          /\ last' = r
    /\ calls' = calls + 1
    /\ UNCHANGED <<debug_assertions, debug_dep_node, dep_node_debug, frame,
                   reg_log>>
    /\ UNCHANGED wp_vars

----------------------------------------------------------------------------
(* DepNode::construct: the fingerprint and the node (lines 73-74), then the *)
(* debug-only registration and the return (lines 76-83).  Another thread    *)
(* may run between the two.                                                 *)

ConstructHash(t, kind, arg) ==
    /\ pc[t] = "idle"
    /\ calls + InFlight < MaxCalls
    /\ LET hash == to_fingerprint(arg)
       IN IF hash = Misuse
          THEN LET r == Call("construct", kind, arg, NoNode, "Misuse")
               IN /\ pc' = [pc EXCEPT ![t] = "panicked"]
                  /\ results' = results \cup {r}
                  /\ last' = r
                  /\ calls' = calls + 1
                  /\ UNCHANGED frame
          ELSE /\ pc' = [pc EXCEPT ![t] = "registering"]
               /\ frame' = [frame EXCEPT ![t] =
                               [kind |-> kind, arg |-> arg,
                                dep_node |-> DepNode(kind, hash)]]
               /\ UNCHANGED <<results, last, calls>>
    /\ UNCHANGED <<debug_assertions, debug_dep_node, dep_node_debug, reg_log>>
    /\ UNCHANGED wp_vars

\* variant: the test on the kind is inverted
should_register_reconstructable(kind) ==
    /\ debug_assertions
    /\ DepKind_can_reconstruct_query_key(kind)
    /\ debug_dep_node

\* #[cfg(debug_assertions)] if !kind.can_reconstruct_query_key() && tcx.debug_dep_node()
should_register(kind) ==
    /\ debug_assertions
    /\ ~DepKind_can_reconstruct_query_key(kind)
    /\ debug_dep_node

ConstructRegister(t) ==
    /\ pc[t] = "registering"
    /\ LET f == frame[t]
           r == Call("construct", f.kind, f.arg, f.dep_node, "returned")
       IN /\ IF should_register(f.kind)
             THEN /\ dep_node_debug' =
                         register_dep_node_debug_str(dep_node_debug, f.dep_node,
                                                     to_debug_str(f.arg))
                  /\ reg_log' = Append(reg_log,
                                       <<f.dep_node, to_debug_str(f.arg)>>)
             ELSE UNCHANGED <<dep_node_debug, reg_log>>
          /\ results' = results \cup {r}
          /\ last' = r
    /\ pc' = [pc EXCEPT ![t] = "idle"]
    /\ frame' = [frame EXCEPT ![t] = NoFrame]
    /\ calls' = calls + 1
    /\ UNCHANGED <<debug_assertions, debug_dep_node>>
    /\ UNCHANGED wp_vars

----------------------------------------------------------------------------
(* DepNodeParams::recover, called on a node produced earlier *)

Recover(t, ty, node) ==
    /\ pc[t] = "idle"
    /\ calls + InFlight < MaxCalls
    /\ node \in Produced
    /\ LET r == Call("recover", node.kind, [ty |-> ty, val |-> 0], node,
                     IF recover(ty, node) = None THEN "None" ELSE "Some")
       IN /\ results' = results \cup {r}
          /\ last' = r
    /\ calls' = calls + 1
    /\ UNCHANGED <<debug_assertions, debug_dep_node, dep_node_debug, pc, frame,
                   reg_log>>
    /\ UNCHANGED wp_vars

----------------------------------------------------------------------------
(* WorkProductId *)

\* the names, as bytes: "", "a", "c", "ab", "bc", "abc"
Names == {<<>>, <<97>>, <<99>>, <<97, 98>>, <<98, 99>>, <<97, 98, 99>>}

WorkProductId(fingerprint) == [hash |-> fingerprint]
NoWorkProductId == [hash |-> Misuse]

\* usize::hash: StableHasher::write_usize feeds the value as a u64
hash_usize(n, hasher) == hasher \o to_le(n, WordBytes)

\* str::hash: the bytes, then the terminator 0xff
hash_str(name, hasher) == (hasher \o name) \o <<255>>

\* variant: the length is not fed
cgu_name_hash_no_len(hasher, cgu_name) == hash_str(cgu_name, hasher)

\* cgu_name.len().hash(&mut hasher); cgu_name.hash(&mut hasher);
cgu_name_hash(hasher, cgu_name) ==
    hash_str(cgu_name, hash_usize(Len(cgu_name), hasher))

FromCguName(a, cgu_name) ==
    /\ LET hasher == cgu_name_hash(StableHasher_new, cgu_name)
       IN /\ wp_hasher' = [wp_hasher EXCEPT ![a] = hasher]
          /\ wp_id' = [wp_id EXCEPT ![a] = WorkProductId(finish(hasher))]
    /\ wp_segs' = [wp_segs EXCEPT ![a] = <<cgu_name>>]
    /\ UNCHANGED dep_vars

\* the same two writes on an accumulator that already holds a segment
FeedSegment(a, cgu_name) ==
    /\ Len(wp_segs[a]) < MaxSegs
    /\ wp_hasher' = [wp_hasher EXCEPT ![a] = cgu_name_hash(wp_hasher[a], cgu_name)]
    /\ wp_segs' = [wp_segs EXCEPT ![a] = Append(wp_segs[a], cgu_name)]
    /\ UNCHANGED wp_id
    /\ UNCHANGED dep_vars

----------------------------------------------------------------------------
(* Specifications *)

Init ==
    /\ debug_assertions \in BOOLEAN
    /\ debug_dep_node \in BOOLEAN
    /\ dep_node_debug = EmptyRegistry
    /\ pc = [t \in Threads |-> "idle"]
    /\ frame = [t \in Threads |-> NoFrame]
    /\ results = {}
    /\ last = NoCall
    /\ calls = 0
    /\ reg_log = <<>>
    /\ wp_hasher = [a \in Accs |-> StableHasher_new]
    /\ wp_segs = [a \in Accs |-> <<>>]
    /\ wp_id = [a \in Accs |-> NoWorkProductId]

Next ==
    \/ \E t \in Threads, kind \in Kinds : NewNoParams(t, kind)
    \/ \E t \in Threads, kind \in Kinds, arg \in Args : ConstructHash(t, kind, arg)
    \/ \E t \in Threads : ConstructRegister(t)
    \/ \E t \in Threads, ty \in SourceTypes, node \in Produced : Recover(t, ty, node)

Spec == Init /\ [][Next]_vars

NextWP ==
    \/ \E a \in Accs, cgu_name \in Names : FromCguName(a, cgu_name)
    \/ \E a \in Accs, cgu_name \in Names : FeedSegment(a, cgu_name)

\* the WorkProductId operations need no session: one build, one session
InitWP == Init /\ debug_assertions /\ debug_dep_node

SpecWP == InitWP /\ [][NextWP]_vars

----------------------------------------------------------------------------
(* Helpers of the properties *)

AllFinished == \A t \in Threads : pc[t] # "registering"

\* a construct call completes in this step
Completes(t) == pc[t] = "registering" /\ pc'[t] = "idle"

\* a call of operation op completes in this step
Completed(op) == calls' = calls + 1 /\ last'.op = op

Constructed == {r \in results : r.op = "construct"}

\* the registered keys, and the first label registered for a key
LogKeys == {reg_log[i][1] : i \in DOMAIN reg_log}
FirstLabel(node) ==
    LET i == CHOOSE i \in DOMAIN reg_log :
                 /\ reg_log[i][1] = node
                 /\ \A j \in DOMAIN reg_log : reg_log[j][1] = node => i <= j
    IN reg_log[i][2]

\* the integer a little-endian byte string stands for
RECURSIVE from_le(_)
from_le(bytes) == IF bytes = <<>> THEN 0 ELSE Head(bytes) + 256 * from_le(Tail(bytes))

----------------------------------------------------------------------------
(* C1: construct is deterministic.  Any two construct calls with the same   *)
(* kind and the same parameter value, completed or still in flight, on any  *)
(* thread and with any other calls and registry insertions in between,      *)
(* have the same outcome and the same (kind, hash).                         *)

----------------------------------------------------------------------------
(* C2: every DepNode produced, by new_no_params or by construct, with a     *)
(* kind whose has_params is false has hash Fingerprint::ZERO.               *)

C2_NoParamsKindOnlyZero ==
    \A r \in results :
        (r.op \in {"new_no_params", "construct"} /\ r.outcome = "returned"
           /\ ~has_params(r.kind))
            => r.node.hash = ZERO

----------------------------------------------------------------------------
(* C3: for a kind without parameters new_no_params returns exactly          *)
(* DepNode { kind, hash: ZERO } (so two calls with the same kind return     *)
(* equal nodes), and the call leaves the debug registry as it was.          *)

C3_NewNoParamsZero ==
    /\ [](\A r \in results :
             (r.op = "new_no_params" /\ ~has_params(r.kind))
                 => (r.outcome = "returned" /\ r.node = [kind |-> r.kind, hash |-> ZERO]))
    /\ [][Completed("new_no_params") => dep_node_debug' = dep_node_debug]_vars

\* new_no_params(Bar) has returned while the registry holds an entry
C3_Witness ==
    /\ last.op = "new_no_params" /\ last.kind = "Bar" /\ last.outcome = "returned"
    /\ last.node.hash = ZERO
    /\ dep_node_debug # EmptyRegistry

----------------------------------------------------------------------------
(* C4: the unit parameter type has the trivial instance: to_fingerprint is  *)
(* ZERO, can_reconstruct_query_key() is true, and recover on a DepNode      *)
(* built from () returns Some(()).                                          *)

C4_UnitTrivialInstance ==
    \A r \in results :
        (r.op = "recover" /\ r.arg.ty = "unit"
           /\ \E c \in Constructed : c.arg.ty = "unit" /\ c.node = r.node)
            => /\ to_fingerprint([ty |-> "unit", val |-> 0]) = ZERO
               /\ DepNodeParams_can_reconstruct_query_key("unit")
               /\ r.outcome = "Some"

----------------------------------------------------------------------------
(* C5: for a parameter type whose can_reconstruct_query_key() is false,     *)
(* recover returns None for every DepNode, also for one construct has just  *)
(* built from a value of that type.                                         *)

C5_RecoverNone ==
    \A r \in results :
        (r.op = "recover" /\ ~DepNodeParams_can_reconstruct_query_key(r.arg.ty))
            => r.outcome = "None"

\* recover::<u64> on a node construct built from a u64
C5_Witness ==
    /\ last.op = "recover" /\ last.arg.ty = "u64" /\ last.outcome = "None"
    /\ \E c \in Constructed :
          c.arg.ty = "u64" /\ c.outcome = "returned" /\ c.node = last.node

----------------------------------------------------------------------------
(* C6: registry entries are write-once: a key that has a label keeps that   *)
(* label in every later state; no step removes or relabels an entry.        *)

C6_RegistryWriteOnce ==
    [][\A n \in DOMAIN dep_node_debug :
          n \in DOMAIN dep_node_debug' /\ dep_node_debug'[n] = dep_node_debug[n]]_vars

\* the same DepNode registered a second time with another label: the first stays
C6_Witness ==
    \E i, j \in DOMAIN reg_log :
        /\ i < j
        /\ reg_log[i][1] = reg_log[j][1]
        /\ reg_log[i][2] # reg_log[j][2]
        /\ dep_node_debug[reg_log[i][1]] = reg_log[i][2]

----------------------------------------------------------------------------
(* C7: concurrent registration loses nothing: once no thread is inside      *)
(* construct, the registry holds exactly the DepNodes that were registered, *)
(* each with the label of the first registration of that key.               *)

C7_NoLostRegistration ==
    AllFinished =>
        /\ DOMAIN dep_node_debug = LogKeys
        /\ \A n \in LogKeys : dep_node_debug[n] = FirstLabel(n)

\* three registrations from two threads, two of them of one key with two labels
C7_Witness ==
    /\ AllFinished
    /\ Len(reg_log) = 3
    /\ Cardinality(LogKeys) = 2
    /\ \E i, j \in DOMAIN reg_log :
          i < j /\ reg_log[i][1] = reg_log[j][1] /\ reg_log[i][2] # reg_log[j][2]
    /\ DOMAIN dep_node_debug = LogKeys

----------------------------------------------------------------------------
(* C8: from_cgu_name feeds a fresh accumulator the length of the name and   *)
(* then its bytes; accumulators fed the same names hold the same stream and *)
(* accumulators fed different names (or the same bytes cut into different   *)
(* segments) hold different streams.                                        *)

C8_LengthPrefixedStream ==
    /\ \A a \in Accs :
          Len(wp_segs[a]) = 1 =>
              LET name == wp_segs[a][1]
                  h == wp_hasher[a]
              IN /\ Len(h) >= WordBytes + Len(name)
                 /\ from_le(SubSeq(h, 1, WordBytes)) = Len(name)
                 /\ SubSeq(h, WordBytes + 1, WordBytes + Len(name)) = name
                 /\ wp_id[a] # NoWorkProductId => wp_id[a].hash = finish(h)
    /\ \A a, b \in Accs : (wp_segs[a] = wp_segs[b]) <=> (wp_hasher[a] = wp_hasher[b])

\* ("ab","c") in one accumulator, ("a","bc") in the other
C8_Witness ==
    /\ wp_segs[1] = << <<97, 98>>, <<99>> >>
    /\ wp_segs[2] = << <<97>>, <<98, 99>> >>
    /\ wp_hasher[1] # wp_hasher[2]

----------------------------------------------------------------------------
(* C9: construct with a parameter type that keeps the trait's default       *)
(* to_fingerprint ends in Misuse: no DepNode is returned, no thread goes on *)
(* to the registration, and the registry is as it was before the call.      *)

C9_MisuseNoNode ==
    /\ [](/\ \A r \in Constructed :
                r.arg.ty = "anon" => (r.outcome = "Misuse" /\ r.node = NoNode)
          /\ \A t \in Threads : frame[t].arg.ty # "anon")
    /\ [][(Completed("construct") /\ last'.arg.ty = "anon")
              => dep_node_debug' = dep_node_debug]_vars

\* construct(Anon, marker) has panicked while the registry holds an entry
C9_Witness ==
    /\ last.op = "construct" /\ last.arg.ty = "anon" /\ last.kind = "Anon"
    /\ last.outcome = "Misuse"
    /\ debug_assertions /\ debug_dep_node
    /\ dep_node_debug # EmptyRegistry

----------------------------------------------------------------------------
(* C10: construct changes the registry if and only if the kind cannot       *)
(* reconstruct its query key and node-debugging is on: then the registry    *)
(* holds a label for the returned DepNode afterwards (a new one only if the *)
(* key was absent), otherwise it is unchanged; every key of the registry    *)
(* has a non-reconstructable kind; nothing but construct changes it.        *)

\* what a completing construct call of thread t does to the registry when
\* registration is on (enabled) or off
RegistryEffect(t, enabled) ==
    LET node == frame[t].dep_node
    IN IF enabled
       THEN /\ node \in DOMAIN dep_node_debug'
            /\ node \in DOMAIN dep_node_debug => dep_node_debug' = dep_node_debug
            /\ node \notin DOMAIN dep_node_debug =>
                  /\ dep_node_debug'[node] = to_debug_str(frame[t].arg)
                  /\ DOMAIN dep_node_debug' = DOMAIN dep_node_debug \cup {node}
                  /\ \A n \in DOMAIN dep_node_debug :
                        dep_node_debug'[n] = dep_node_debug[n]
       ELSE dep_node_debug' = dep_node_debug

OnlyConstructWrites ==
    dep_node_debug' # dep_node_debug => \E t \in Threads : Completes(t)

KeysNotReconstructable ==
    \A n \in DOMAIN dep_node_debug : ~DepKind_can_reconstruct_query_key(n.kind)

C10_RegistryIffDebugging ==
    /\ [][/\ \A t \in Threads :
                Completes(t) =>
                    RegistryEffect(t, ~DepKind_can_reconstruct_query_key(frame[t].kind)
                                        /\ debug_dep_node)
          /\ OnlyConstructWrites]_vars
    /\ []KeysNotReconstructable

\* the same, registration being on only in a build with debug assertions
C10_RegistryIffDebugBuild ==
    /\ [][/\ \A t \in Threads :
                Completes(t) =>
                    RegistryEffect(t, debug_assertions
                                        /\ ~DepKind_can_reconstruct_query_key(frame[t].kind)
                                        /\ debug_dep_node)
          /\ OnlyConstructWrites]_vars
    /\ []KeysNotReconstructable

\* construct(Anon, v) has returned and the registry holds v's label for the node
C10_Witness ==
    /\ debug_assertions /\ debug_dep_node
    /\ last.op = "construct" /\ last.kind = "Anon" /\ last.outcome = "returned"
    /\ last.node \in DOMAIN dep_node_debug
    /\ dep_node_debug[last.node] = to_debug_str(last.arg)
    /\ \E r \in Constructed : r.kind = "Foo" /\ r.outcome = "returned"
                                /\ r.node \notin DOMAIN dep_node_debug

====
